---- MODULE Spec2Model ----
(***************************************************************************)
(* The tool-name resolver of node/tools/custom_tools.py: the canonical     *)
(* registry tool_functions, the derived _normalized_index, the tolerant    *)
(* _ToolMap.__getitem__ lookup and get_tool_functions; and the tools       *)
(* behind the names: the placeholders of custom_tools.py, the              *)
(* NativeModuleMigrator, the ESMMigrationTool, the NodeCodeAnalyzer's      *)
(* score, and MyCustomTool with the crew of the newcrew template.          *)
(*                                                                         *)
(* A Python str is a sequence of Unicode code points (naturals).           *)
(***************************************************************************)
EXTENDS Integers, Sequences, FiniteSets, TLC

(***************************************************************************)
(* Code points used below.                                                 *)
(***************************************************************************)
\* U+0020 SPACE, the " " of _normalize
SP == 32
\* U+00A0 NO-BREAK SPACE, the NBSP the tolerant lookup is meant to survive
NBSP == 160

(***************************************************************************)
(* The canonical display names, the keys of tool_functions.                *)
(***************************************************************************)
\* "Node Code Analyzer"
KeyNodeCodeAnalyzer ==
  <<78, 111, 100, 101, 32, 67, 111, 100, 101, 32, 65, 110, 97, 108, 121, 122, 101, 114>>
\* "Dependency Analyzer"
KeyDependencyAnalyzer ==
  <<68, 101, 112, 101, 110, 100, 101, 110, 99, 121, 32, 65, 110, 97, 108, 121, 122, 101, 114>>
\* "Watchdog Service Analyzer"
KeyWatchdogServiceAnalyzer ==
  <<87, 97, 116, 99, 104, 100, 111, 103, 32, 83, 101, 114, 118, 105, 99, 101, 32, 65, 110, 97,
    108, 121, 122, 101, 114>>
\* "Security Scanner"
KeySecurityScanner ==
  <<83, 101, 99, 117, 114, 105, 116, 121, 32, 83, 99, 97, 110, 110, 101, 114>>
\* "Test Generator"
KeyTestGenerator ==
  <<84, 101, 115, 116, 32, 71, 101, 110, 101, 114, 97, 116, 111, 114>>
\* "Node Version Migrator"
KeyNodeVersionMigrator ==
  <<78, 111, 100, 101, 32, 86, 101, 114, 115, 105, 111, 110, 32, 77, 105, 103, 114, 97, 116,
    111, 114>>
\* "ESM Migration Tool"
KeyESMMigrationTool ==
  <<69, 83, 77, 32, 77, 105, 103, 114, 97, 116, 105, 111, 110, 32, 84, 111, 111, 108>>
\* "Native Module Migrator"
KeyNativeModuleMigrator ==
  <<78, 97, 116, 105, 118, 101, 32, 77, 111, 100, 117, 108, 101, 32, 77, 105, 103, 114, 97,
    116, 111, 114>>

(***************************************************************************)
(* Python helpers on sequences.                                            *)
(***************************************************************************)
Min(a, b) == IF a <= b THEN a ELSE b

SetMax(S) == CHOOSE x \in S : \A y \in S : y <= x

SetMin(S) == CHOOSE x \in S : \A y \in S : x <= y

\* Python's ordering of two str values: lexicographic by code point
RECURSIVE StrLess(_, _)
StrLess(s, t) ==
  IF t = << >> THEN FALSE
  ELSE IF s = << >> THEN TRUE
  ELSE IF s[1] # t[1] THEN s[1] < t[1]
  ELSE StrLess(Tail(s), Tail(t))

(***************************************************************************)
(* unicodedata.normalize("NFKC", name), on the code points modelled: the   *)
(* compatibility decomposition of each code point followed by canonical    *)
(* composition of a base letter with a following combining mark.           *)
(***************************************************************************)
CompatSpaces == {NBSP, 8239, 8287, 12288} \cup (8192 .. 8202)

\* 65326 is U+FF2E FULLWIDTH LATIN CAPITAL LETTER N, 78 is "N";
\* 233 is U+00E9 (e with acute), 101 is "e", 769 is U+0301 COMBINING ACUTE ACCENT
\* 180 is U+00B4 ACUTE ACCENT, whose decomposition is a space and U+0301
NFKCDecompose(ch) ==
  IF ch \in CompatSpaces THEN <<SP>>
  ELSE IF ch = 65326 THEN <<78>>
  ELSE IF ch = 180 THEN <<SP, 769>>
  ELSE IF ch = 233 THEN <<101, 769>>
  ELSE <<ch>>

RECURSIVE DecomposeAll(_)
DecomposeAll(s) ==
  IF s = << >> THEN << >> ELSE NFKCDecompose(s[1]) \o DecomposeAll(Tail(s))

RECURSIVE ComposeAll(_)
ComposeAll(s) ==
  IF Len(s) < 2 THEN s
  ELSE IF s[1] = 101 /\ s[2] = 769
       THEN <<233>> \o ComposeAll(Tail(Tail(s)))
       ELSE <<s[1]>> \o ComposeAll(Tail(s))

NFKC(s) == ComposeAll(DecomposeAll(s))

(***************************************************************************)
(* str.isspace() of one code point and str.strip().                        *)
(***************************************************************************)
IsSpace(ch) ==
  \/ ch \in 9 .. 13
  \/ ch \in 28 .. 32
  \/ ch \in {133, 160, 5760, 8232, 8233, 8239, 8287, 12288}
  \/ ch \in 8192 .. 8202

RECURSIVE LStrip(_)
LStrip(s) == IF s # << >> /\ IsSpace(s[1]) THEN LStrip(Tail(s)) ELSE s

RECURSIVE RStrip(_)
RStrip(s) ==
  IF s # << >> /\ IsSpace(s[Len(s)]) THEN RStrip(SubSeq(s, 1, Len(s) - 1)) ELSE s

Strip(s) == RStrip(LStrip(s))

\* "".join(ch if not ch.isspace() else " " for ch in name)
SpacesForWhitespace(s) == [i \in 1 .. Len(s) |-> IF IsSpace(s[i]) THEN SP ELSE s[i]]

\* the same steps with the Unicode normalization done last
NormalizeComposingLast(name) == NFKC(Strip(SpacesForWhitespace(name)))

(***************************************************************************)
(* _normalize(name) for a str argument.                                    *)
(***************************************************************************)
_normalize(name) == Strip(SpacesForWhitespace(NFKC(name)))

(***************************************************************************)
(* difflib.SequenceMatcher(None, a, b) as get_close_matches uses it: no    *)
(* junk, and no popular elements since every b is shorter than 200.        *)
(* Indices i, j and the bounds alo, ahi, blo, bhi are Python's (0-based).  *)
(***************************************************************************)
\* the length of the common run of a[i:ahi] and b[j:bhi]
RECURSIVE MatchLen(_, _, _, _, _, _)
MatchLen(a, b, i, j, ahi, bhi) ==
  IF i < ahi /\ j < bhi /\ a[i + 1] = b[j + 1]
  THEN 1 + MatchLen(a, b, i + 1, j + 1, ahi, bhi)
  ELSE 0

\* <<i, j, k>>: the longest block a[i:i+k] = b[j:j+k] within the bounds; of the
\* longest ones that starting earliest in a, and of those earliest in b
find_longest_match(a, b, alo, ahi, blo, bhi) ==
  LET starts == {p \in (alo .. ahi - 1) \X (blo .. bhi - 1) :
                   /\ a[p[1] + 1] = b[p[2] + 1]
                   /\ (p[1] = alo \/ p[2] = blo \/ a[p[1]] # b[p[2]])}
      blocks == {<<p[1], p[2], MatchLen(a, b, p[1], p[2], ahi, bhi)>> : p \in starts}
      bestsize == SetMax({m[3] : m \in blocks})
      besti == SetMin({m[1] : m \in {x \in blocks : x[3] = bestsize}})
      bestj == SetMin({m[2] : m \in {x \in blocks : x[3] = bestsize /\ x[1] = besti}})
  IN  IF starts = {} THEN <<alo, blo, 0>> ELSE <<besti, bestj, bestsize>>

\* sum of the sizes of get_matching_blocks(), by its left and right recursion
RECURSIVE MatchedSize(_, _, _, _, _, _)
MatchedSize(a, b, alo, ahi, blo, bhi) ==
  LET m == find_longest_match(a, b, alo, ahi, blo, bhi)
      i == m[1]
      j == m[2]
      k == m[3]
  IN  IF k = 0 THEN 0
      ELSE k + (IF alo < i /\ blo < j THEN MatchedSize(a, b, alo, i, blo, j) ELSE 0)
             + (IF i + k < ahi /\ j + k < bhi
                THEN MatchedSize(a, b, i + k, ahi, j + k, bhi) ELSE 0)

\* the similarity without its factor 2.0
HalvedRatio(matches, length) == IF length = 0 THEN <<1, 2>> ELSE <<matches \div 2, length>>

\* A similarity 2.0*matches/length is kept as the pair <<matches, length>>
\* (the value 1.0 of two empty sequences as <<1, 2>>), compared exactly.
_calculate_ratio(matches, length) == IF length = 0 THEN <<1, 2>> ELSE <<matches, length>>

ratio(a, b) == _calculate_ratio(MatchedSize(a, b, 0, Len(a), 0, Len(b)), Len(a) + Len(b))

\* how many times elt occurs in s
Count(s, elt) == Cardinality({i \in 1 .. Len(s) : s[i] = elt})

\* the multiset intersection of the elements of a and b
quick_ratio(a, b) ==
  LET elts == {a[i] : i \in 1 .. Len(a)}
      RECURSIVE Sum(_)
      Sum(S) == IF S = {} THEN 0
                ELSE LET e == CHOOSE x \in S : TRUE
                     IN  Min(Count(a, e), Count(b, e)) + Sum(S \ {e})
  IN  _calculate_ratio(Sum(elts), Len(a) + Len(b))

real_quick_ratio(a, b) == _calculate_ratio(Min(Len(a), Len(b)), Len(a) + Len(b))

\* 2.0*r[1]/r[2] >= cutoff, for the cutoff num/den
AtLeast(r, num, den) == 2 * r[1] * den >= num * r[2]

\* the tuple order of (score, x): by score, then by the str x
ScoredLess(p, q) ==
  \/ p.score[1] * q.score[2] < q.score[1] * p.score[2]
  \/ /\ p.score[1] * q.score[2] = q.score[1] * p.score[2]
     /\ StrLess(p.x, q.x)

(***************************************************************************)
(* difflib.get_close_matches(word, possibilities, n=1, cutoff): the list   *)
(* holding the best-scoring possibility that clears the cutoff, or the     *)
(* empty list.  possibilities is a set of distinct str.                    *)
(***************************************************************************)
get_close_matches(word, possibilities, num, den) ==
  LET result == {[score |-> ratio(x, word), x |-> x] :
                   x \in {y \in possibilities :
                            /\ AtLeast(real_quick_ratio(y, word), num, den)
                            /\ AtLeast(quick_ratio(y, word), num, den)
                            /\ AtLeast(ratio(y, word), num, den)}}
  IN  IF result = {} THEN << >>
      ELSE <<(CHOOSE p \in result : \A q \in result : q = p \/ ScoredLess(q, p)).x>>

(***************************************************************************)
(* A Python dict is its insertion-ordered list of <<key, value>> items.    *)
(***************************************************************************)
DictHas(d, k) == \E i \in 1 .. Len(d) : d[i][1] = k

DictGet(d, k) == d[CHOOSE i \in 1 .. Len(d) : d[i][1] = k][2]

DictKeys(d) == [i \in 1 .. Len(d) |-> d[i][1]]

DictKeySet(d) == {d[i][1] : i \in 1 .. Len(d)}

DictValueSet(d) == {d[i][2] : i \in 1 .. Len(d)}

\* d[k] = v: an existing key keeps its place, a new key goes last
DictSet(d, k, v) ==
  IF DictHas(d, k)
  THEN [i \in 1 .. Len(d) |-> IF d[i][1] = k THEN <<k, v>> ELSE d[i]]
  ELSE Append(d, <<k, v>>)

(***************************************************************************)
(* Module initialization of custom_tools.py.  A factory _ctor(cls) is      *)
(* known by the class it instantiates.                                     *)
(***************************************************************************)
_ctor(cls) == [cls |-> cls]

\* the names bound by the two optional imports: the real class, or the
\* placeholder class defined when the import raises
ESMMigrationTool(imported) == IF imported THEN "ESMMigrationTool" ELSE "_ESMDummy"

NativeModuleMigrator(imported) ==
  IF imported THEN "NativeModuleMigrator" ELSE "_NativeDummy"

\* "ESM Migration Tool "
KeyESMMigrationToolTrailing == KeyESMMigrationTool \o <<SP>>

\* the second insertion under a copy of the first one's name with a trailing
\* space: two keys that normalize alike
BuildToolFunctionsMisnamed(esmCls, nativeCls) ==
  LET literal == << <<KeyNodeCodeAnalyzer, _ctor("NodeCodeAnalyzer")>>,
                    <<KeyDependencyAnalyzer, _ctor("DependencyAnalyzer")>>,
                    <<KeyWatchdogServiceAnalyzer, _ctor("WatchdogServiceAnalyzer")>>,
                    <<KeySecurityScanner, _ctor("SecurityScanner")>>,
                    <<KeyTestGenerator, _ctor("TestGenerator")>>,
                    <<KeyNodeVersionMigrator, _ctor("NodeVersionMigrator")>> >>
      withEsm == DictSet(literal, KeyESMMigrationTool, _ctor(esmCls))
  IN  DictSet(withEsm, KeyESMMigrationToolTrailing, _ctor(nativeCls))

\* the insertions made only for the tools whose import succeeded, as if a
\* failed import left None behind
BuildToolFunctionsOfImported(esmCls, nativeCls) ==
  LET literal == << <<KeyNodeCodeAnalyzer, _ctor("NodeCodeAnalyzer")>>,
                    <<KeyDependencyAnalyzer, _ctor("DependencyAnalyzer")>>,
                    <<KeyWatchdogServiceAnalyzer, _ctor("WatchdogServiceAnalyzer")>>,
                    <<KeySecurityScanner, _ctor("SecurityScanner")>>,
                    <<KeyTestGenerator, _ctor("TestGenerator")>>,
                    <<KeyNodeVersionMigrator, _ctor("NodeVersionMigrator")>> >>
      withEsm == IF esmCls = "ESMMigrationTool"
                 THEN DictSet(literal, KeyESMMigrationTool, _ctor(esmCls))
                 ELSE literal
  IN  IF nativeCls = "NativeModuleMigrator"
      THEN DictSet(withEsm, KeyNativeModuleMigrator, _ctor(nativeCls))
      ELSE withEsm

\* the dict literal and the two conditional insertions; a class object is
\* never None, so both insertions happen
BuildToolFunctions(esmCls, nativeCls) ==
  LET literal == << <<KeyNodeCodeAnalyzer, _ctor("NodeCodeAnalyzer")>>,
                    <<KeyDependencyAnalyzer, _ctor("DependencyAnalyzer")>>,
                    <<KeyWatchdogServiceAnalyzer, _ctor("WatchdogServiceAnalyzer")>>,
                    <<KeySecurityScanner, _ctor("SecurityScanner")>>,
                    <<KeyTestGenerator, _ctor("TestGenerator")>>,
                    <<KeyNodeVersionMigrator, _ctor("NodeVersionMigrator")>> >>
      withEsm == DictSet(literal, KeyESMMigrationTool, _ctor(esmCls))
  IN  DictSet(withEsm, KeyNativeModuleMigrator, _ctor(nativeCls))

\* { _normalize(k): k for k in tool_functions.keys() }
RECURSIVE IndexOver(_, _)
IndexOver(keys, acc) ==
  IF keys = << >> THEN acc
  ELSE IndexOver(Tail(keys), DictSet(acc, _normalize(keys[1]), keys[1]))

\* the index built from the dict literal alone, before the optional tools
\* were inserted
BuildIndexBeforeOptional(tf) == IndexOver(SubSeq(DictKeys(tf), 1, 6), << >>)

BuildNormalizedIndex(tf) == IndexOver(DictKeys(tf), << >>)

(***************************************************************************)
(* State.  tool_functions and _normalized_index are the module globals;    *)
(* reg is the _ToolMap a caller holds (<< >> before any was obtained) and   *)
(* reg_new tells whether that map is an object of its own, not the         *)
(* tool_functions dict itself; request and outcome are the argument and    *)
(* the result of the lookup the caller has made and not yet acted on, and  *)
(* repeated tells whether the caller has made that lookup more than once.  *)
(* imports records which of the two optional imports succeeded.            *)
(* instance is the tool object a caller has made (<< >> when none) and run *)
(* the last call of a tool's _run with the result of that call.  crew is   *)
(* the crew of the newcrew template (<< >> before it is built) and output  *)
(* what its kickoff returned.  fs is the part of the file system that the  *)
(* tools read and write.  results is the dict that a run of the           *)
(* NodeCodeAnalyzer fills file by file (<< >> when no run is under way).    *)
(* node is the Node crew of node/crew.py (<< >> before it is constructed), *)
(* built the last call of Node._build of node/agents.py with its result,   *)
(* and held the tool objects made by the factory calls of a caller.        *)
(***************************************************************************)
VARIABLES tool_functions, _normalized_index, reg, reg_new, request, outcome, repeated,
          imports, instance, run, crew, output, fs, results, node, built, held

\* the state of the newcrew template
crewVars == <<crew, output>>

\* the Node crew of node/crew.py, the last Node._build of node/agents.py, and
\* the tool objects that callers of the factories hold
nodeVars == <<node, built, held>>

\* the state of the tools, which no operation of the registry touches
toolVars == <<instance, run, crewVars, fs, results, nodeVars>>

\* a path with nothing at it, a directory, a file with its text
Absent == [kind |-> "absent", text |-> << >>]

Directory == [kind |-> "dir", text |-> << >>]

File(text) == [kind |-> "file", text |-> text]

\* the paths in use: a project directory, two sources with the .mjs files a
\* migration puts next to them, and the package file
Paths == {"app", "app/a.js", "app/b.js", "app/a.mjs", "app/b.mjs", "app/package.json"}

\* nothing exists
NoFiles == [p \in Paths |-> Absent]

vars == <<tool_functions, _normalized_index, reg, reg_new, request, outcome, repeated,
          imports, toolVars>>

\* the cutoff=0.6 of the lookup's get_close_matches call, as CutoffNum/CutoffDen
CutoffNum == 6
CutoffDen == 10

(***************************************************************************)
(* _ToolMap.__getitem__(self, key) for a str key.  The result records what *)
(* the call did: kind is "return" or "raise"; factory the value returned;  *)
(* exc, key and closest the exception type, the original key its message   *)
(* carries and the suggestion (a list of at most one name); via the branch *)
(* that ended the call; nkey the local nkey (<< >> when never computed).   *)
(***************************************************************************)
NoFactory == [cls |-> "None"]

Returned(f, branch, nk) ==
  [kind |-> "return", factory |-> f, exc |-> "None", key |-> << >>,
   closest |-> << >>, via |-> branch, nkey |-> nk]

Raised(k, sug, branch, nk) ==
  [kind |-> "raise", factory |-> NoFactory, exc |-> "KeyError", key |-> k,
   closest |-> sug, via |-> branch, nkey |-> nk]

\* the miss branch with the normalized key, not the caller's, in the errors
SuggestReportingNkey(key, nkey) ==
  LET suggestion == get_close_matches(nkey, DictKeySet(_normalized_index),
                                      CutoffNum, CutoffDen)
  IN  IF suggestion # << >>
      THEN Raised(nkey, <<DictGet(_normalized_index, suggestion[1])>>, "suggestion", <<nkey>>)
      ELSE Raised(nkey, << >>, "miss", <<nkey>>)

\* the miss branch with cutoff=0.0: the nearest name is always suggested
SuggestWithoutCutoff(key, nkey) ==
  LET suggestion == get_close_matches(nkey, DictKeySet(_normalized_index), 0, CutoffDen)
  IN  IF suggestion # << >>
      THEN Raised(key, <<DictGet(_normalized_index, suggestion[1])>>, "suggestion", <<nkey>>)
      ELSE Raised(key, << >>, "miss", <<nkey>>)

\* the miss branch ending like dict.get: no close match gives None
SuggestOrNone(key, nkey) ==
  LET suggestion == get_close_matches(nkey, DictKeySet(_normalized_index),
                                      CutoffNum, CutoffDen)
  IN  IF suggestion # << >>
      THEN Raised(key, <<DictGet(_normalized_index, suggestion[1])>>, "suggestion", <<nkey>>)
      ELSE Returned(NoFactory, "miss", <<nkey>>)

\* lines 91-96: the closest normalized name, if any clears the cutoff
SuggestCloseMatch(key, nkey) ==
  LET suggestion == get_close_matches(nkey, DictKeySet(_normalized_index),
                                      CutoffNum, CutoffDen)
  IN  IF suggestion # << >>
      THEN Raised(key, <<DictGet(_normalized_index, suggestion[1])>>, "suggestion", <<nkey>>)
      ELSE Raised(key, << >>, "miss", <<nkey>>)

\* the fallback with the index asked for the raw key, not the normalized one
NormalizedFallbackRawKey(self, key) ==
  LET nkey == _normalize(key)
  IN  IF DictHas(_normalized_index, key)
      THEN Returned(DictGet(self, DictGet(_normalized_index, key)), "normalized", <<nkey>>)
      ELSE SuggestCloseMatch(key, nkey)

\* lines 86-90: the normalized fallback; dict.__getitem__(self, ref) raises
\* KeyError(ref) itself when self lacks ref
NormalizedFallback(self, key) ==
  LET nkey == _normalize(key)
  IN  IF DictHas(_normalized_index, nkey)
      THEN LET ref == DictGet(_normalized_index, nkey)
           IN  IF DictHas(self, ref)
               THEN Returned(DictGet(self, ref), "normalized", <<nkey>>)
               ELSE Raised(ref, << >>, "normalized", <<nkey>>)
      ELSE SuggestCloseMatch(key, nkey)

\* the lookup without its exact-match test: every key goes through _normalize
GetItemAlwaysNormalizing(self, key) == NormalizedFallback(self, key)

_ToolMap__getitem__(self, key) ==
  IF DictHas(self, key)
  THEN Returned(DictGet(self, key), "exact", << >>)
  ELSE NormalizedFallback(self, key)

(***************************************************************************)
(* Lookup requests: strings of unknown cleanliness built from the          *)
(* canonical names.  Positions are 1-based; InsertAt puts ch after the     *)
(* first i characters.                                                     *)
(***************************************************************************)
CanonicalKeys ==
  {KeyNodeCodeAnalyzer, KeyDependencyAnalyzer, KeyWatchdogServiceAnalyzer,
   KeySecurityScanner, KeyTestGenerator, KeyNodeVersionMigrator, KeyESMMigrationTool,
   KeyNativeModuleMigrator}

InsertAt(s, i, ch) == SubSeq(s, 1, i) \o <<ch>> \o SubSeq(s, i + 1, Len(s))

DeleteAt(s, i) == SubSeq(s, 1, i - 1) \o SubSeq(s, i + 1, Len(s))

SubstAt(s, i, ch) == [s EXCEPT ![i] = ch]

TransposeAt(s, i) == [s EXCEPT ![i] = s[i + 1], ![i + 1] = s[i]]

\* the most whitespace characters added in front of, and behind, a name
MaxPad == 1

\* space, tab and no-break space
WhitespaceChars == {SP, 9, NBSP}

\* every string of at most n whitespace characters
RECURSIVE Pads(_)
Pads(n) ==
  IF n = 0 THEN {<< >>}
  ELSE LET shorter == Pads(n - 1)
       IN  shorter \cup {<<ch>> \o w : ch \in WhitespaceChars, w \in shorter}

Padded(k) == {l \o k \o r : l \in Pads(MaxPad), r \in Pads(MaxPad)}

DoubledSpace(k) == {InsertAt(k, i, SP) : i \in {j \in 1 .. Len(k) : k[j] = SP}}

NbspInserted(k) == {InsertAt(k, i, NBSP) : i \in 0 .. Len(k)}

NbspForSpace(k) == {SubstAt(k, i, NBSP) : i \in {j \in 1 .. Len(k) : k[j] = SP}}

\* the "x" (120) typed by mistake
OneEdit(k) ==
  {InsertAt(k, i, 120) : i \in 0 .. Len(k)}
    \cup {DeleteAt(k, i) : i \in 1 .. Len(k)}
    \cup {SubstAt(k, i, 120) : i \in 1 .. Len(k)}
    \cup {TransposeAt(k, i) : i \in 1 .. Len(k) - 1}

\* a fullwidth "N" (U+FF2E) for the first letter
Fullwidth(k) == IF k[1] = 78 THEN {SubstAt(k, 1, 65326)} ELSE {}

\* "Totally Unknown Tool", "", "Tool", "Cafe" + U+0301, U+00E9, " ", U+00B4 + "x"
OtherRequests ==
  {<<84, 111, 116, 97, 108, 108, 121, 32, 85, 110, 107, 110, 111, 119, 110, 32, 84, 111,
     111, 108>>,
   << >>,
   <<84, 111, 111, 108>>,
   <<67, 97, 102, 101, 769>>,
   <<233>>,
   <<SP>>,
   <<180, 120>>}

Requests ==
  CanonicalKeys \cup OtherRequests
    \cup UNION {Padded(k) \cup DoubledSpace(k) \cup NbspInserted(k) \cup NbspForSpace(k)
                  \cup OneEdit(k) \cup Fullwidth(k) : k \in CanonicalKeys}

(***************************************************************************)
(* Init: the module has been imported; either optional import may have     *)
(* failed.  No caller holds a map yet.                                     *)
(***************************************************************************)
Init ==
  \E esm, native \in BOOLEAN :
    /\ tool_functions = BuildToolFunctions(ESMMigrationTool(esm), NativeModuleMigrator(native))
    /\ _normalized_index = BuildNormalizedIndex(tool_functions)
    /\ reg = << >>
    /\ reg_new = FALSE
    /\ request = << >>
    /\ outcome = << >>
    /\ repeated = FALSE
    /\ imports = [esm |-> esm, native |-> native]
    /\ instance = << >>
    /\ run = << >>
    /\ crew = << >>
    /\ output = << >>
    /\ fs = NoFiles
    /\ results = << >>
    /\ node = << >>
    /\ built = << >>
    /\ held = << >>

\* lines 61-62, the first get_tool_functions, which the second one shadows:
\* the tool_functions dict itself is handed out
ReturnToolFunctions(d) == [items |-> d, new |-> FALSE]

\* line 102, _ToolMap(tool_functions): a dict of its own with the items of d
_ToolMap(d) == [items |-> d, new |-> TRUE]

\* get_tool_functions(): every call builds a _ToolMap from tool_functions
get_tool_functions ==
  /\ request = << >>
  /\ reg' = <<_ToolMap(tool_functions).items>>
  /\ reg_new' = _ToolMap(tool_functions).new
  /\ UNCHANGED <<tool_functions, _normalized_index, request, outcome, repeated>>
  /\ UNCHANGED <<imports, toolVars>>

\* a lookup that keeps the key it resolved through the index in the map
SelfAfterCachingGetItem(self, key) ==
  LET r == _ToolMap__getitem__(self, key)
  IN  IF r.via = "normalized" /\ r.kind = "return" THEN DictSet(self, key, r.factory)
      ELSE self

\* lines 82-96 assign neither to self nor to _normalized_index: the map
\* after the call is the map before it
SelfAfterGetItem(self, key) == self

\* what a write to the map a caller holds does to tool_functions: nothing
\* when the map is an object of its own
Aliased(map) == IF reg_new THEN tool_functions ELSE map

\* reg[key]
Lookup(key) ==
  /\ reg # << >>
  /\ request = << >>
  /\ request' = <<key>>
  /\ outcome' = <<_ToolMap__getitem__(reg[1], key)>>
  /\ reg' = <<SelfAfterGetItem(reg[1], key)>>
  /\ tool_functions' = Aliased(reg'[1])
  /\ UNCHANGED <<_normalized_index, reg_new, repeated>>
  /\ UNCHANGED <<imports, toolVars>>

\* the same reg[key] once more, before the caller acts on the first result
LookupAgain ==
  /\ request # << >>
  /\ outcome' = <<_ToolMap__getitem__(reg[1], request[1])>>
  /\ reg' = <<SelfAfterGetItem(reg[1], request[1])>>
  /\ tool_functions' = Aliased(reg'[1])
  /\ repeated' = TRUE
  /\ UNCHANGED <<_normalized_index, reg_new, request>>
  /\ UNCHANGED <<imports, toolVars>>

\* the most entries a caller removes from a map it was given
MaxPops == 2

\* reg.pop(k): a caller changes the map that get_tool_functions gave it
CallerPops(k) ==
  /\ reg # << >>
  /\ request = << >>
  /\ DictHas(reg[1], k)
  /\ Len(reg[1]) + MaxPops > Cardinality(CanonicalKeys)
  /\ reg' = <<SelectSeq(reg[1], LAMBDA kv : kv[1] # k)>>
  /\ tool_functions' = Aliased(reg'[1])
  /\ UNCHANGED <<_normalized_index, reg_new, request, outcome, repeated>>
  /\ UNCHANGED <<imports, toolVars>>

\* the caller takes the value, or handles the KeyError, and goes on
Proceed ==
  /\ request # << >>
  /\ request' = << >>
  /\ outcome' = << >>
  /\ repeated' = FALSE
  /\ UNCHANGED <<tool_functions, _normalized_index, reg, reg_new>>
  /\ UNCHANGED <<imports, toolVars>>

Next ==
  \/ get_tool_functions
  \/ \E key \in Requests : Lookup(key)
  \/ Proceed

Spec == Init /\ [][Next]_vars

(***************************************************************************)
(* The life of the registry: callers get maps, look names up, repeat a     *)
(* lookup, and remove entries from the maps they were given.               *)
(***************************************************************************)
\* "  Test Generator ", "Test  Generator", "Test Generatr", "Totally Unknown Tool", ""
SampleRequests ==
  CanonicalKeys
    \cup {<<SP, SP>> \o KeyTestGenerator \o <<SP>>,
          InsertAt(KeyTestGenerator, 4, SP),
          DeleteAt(KeyTestGenerator, 13),
          <<84, 111, 116, 97, 108, 108, 121, 32, 85, 110, 107, 110, 111, 119, 110, 32, 84,
            111, 111, 108>>,
          << >>}

LifecycleNext ==
  \/ get_tool_functions
  \/ \E key \in SampleRequests : Lookup(key)
  \/ LookupAgain
  \/ \E k \in CanonicalKeys : CallerPops(k)
  \/ Proceed

LifecycleSpec == Init /\ [][LifecycleNext]_vars

(***************************************************************************)
(* The claims.  A lookup has been made when request holds its key; Req and *)
(* Out are then the key and what the lookup did.                           *)
(***************************************************************************)
Looked == request # << >>

Req == request[1]

Out == outcome[1]

Registry == reg[1]

\* s is k with one no-break space inserted, one interior space doubled, or
\* whitespace added in front or behind
WhitespaceVariant(s, k) == s \in NbspInserted(k) \cup DoubledSpace(k) \cup Padded(k)

\* C1: for every canonical key k and every string s obtained from k by
\* inserting non-breaking spaces, doubling interior spaces, or adding
\* leading/trailing whitespace, registry[s] succeeds and returns the same
\* factory as registry[k].
C1_WhitespaceVariantsResolve ==
  Looked =>
    \A k \in DictKeySet(Registry) :
      WhitespaceVariant(Req, k) =>
        /\ Out.kind = "return"
        /\ Out.factory = DictGet(Registry, k)

\* C2: a request that is byte-for-byte a canonical key gets the factory
\* registered under that key from the exact-match branch, with the request
\* never normalized and neither the index nor the fuzzy matcher consulted.
C2_ExactMatchFirst ==
  (Looked /\ DictHas(Registry, Req)) =>
    Out = Returned(DictGet(Registry, Req), "exact", << >>)

C2_Witness ==
  /\ Looked
  /\ Req = KeyDependencyAnalyzer
  /\ Out.via = "exact"
  /\ Out.factory = _ctor("DependencyAnalyzer")

\* C3: a request that is no canonical key but whose normalized form is a key
\* of the Normalized Index gets, without raising, the factory registered
\* under the canonical key the index maps that form to.
C3_NormalizedMatch ==
  (Looked /\ ~DictHas(Registry, Req) /\ DictHas(_normalized_index, _normalize(Req))) =>
    /\ Out.kind = "return"
    /\ Out.factory = DictGet(Registry, DictGet(_normalized_index, _normalize(Req)))

\* NBSP + "Test Generator" + tab
C3_Witness ==
  /\ Looked
  /\ Req = <<NBSP>> \o KeyTestGenerator \o <<9>>
  /\ Out.kind = "return"
  /\ Out.factory = _ctor("TestGenerator")
  /\ Out.via = "normalized"

\* some normalized canonical name is as similar to the normalized request as
\* the cutoff asks
SomeNameIsClose(s) ==
  \E nk \in DictKeySet(_normalized_index) :
    AtLeast(ratio(nk, _normalize(s)), CutoffNum, CutoffDen)

Unmatched(s) == ~DictHas(Registry, s) /\ ~DictHas(_normalized_index, _normalize(s))

\* C4: when a request matches no canonical key exactly or after
\* normalization and the closest normalized canonical key clears the 0.6
\* cutoff, the lookup raises a KeyError that names the original,
\* un-normalized request and a suggestion, and the suggestion is a canonical
\* key of the registry.
C4_SuggestionOnMiss ==
  (Looked /\ Unmatched(Req) /\ SomeNameIsClose(Req)) =>
    /\ Out.kind = "raise"
    /\ Out.exc = "KeyError"
    /\ Out.key = Req
    /\ Len(Out.closest) = 1
    /\ Out.closest[1] \in DictKeySet(tool_functions)

\* "Node" + NBSP + " Code Analyzer": the request and its normalized form differ
C4_Witness ==
  /\ Looked
  /\ Req = InsertAt(KeyNodeCodeAnalyzer, 4, NBSP)
  /\ Out.nkey = <<InsertAt(KeyNodeCodeAnalyzer, 4, SP)>>
  /\ Out.kind = "raise"
  /\ Out.key = Req
  /\ Out.closest = <<KeyNodeCodeAnalyzer>>

\* C5: a request whose similarity to every normalized canonical key is below
\* the cutoff raises a KeyError carrying the original request and no
\* suggestion.
C5_NoSuggestionWhenFar ==
  Looked =>
    \/ /\ Out.kind = "raise"
       /\ Out.exc = "KeyError"
       /\ Out.key = Req
       /\ Out.closest = << >>
    \/ SomeNameIsClose(Req)

\* "Totally Unknown Tool"
C5_Witness ==
  /\ Looked
  /\ Req = <<84, 111, 116, 97, 108, 108, 121, 32, 85, 110, 107, 110, 111, 119, 110, 32, 84,
             111, 111, 108>>
  /\ ~SomeNameIsClose(Req)
  /\ Out.kind = "raise"
  /\ Out.closest = << >>

\* s is exactly one edit away from k: one character inserted, deleted or
\* substituted, or two adjacent characters transposed
OneEditAway(s, k) ==
  /\ s # k
  /\ \/ Len(s) = Len(k) + 1 /\ \E i \in 1 .. Len(s) : DeleteAt(s, i) = k
     \/ Len(s) = Len(k) - 1 /\ \E i \in 1 .. Len(k) : DeleteAt(k, i) = s
     \/ Len(s) = Len(k) /\ Cardinality({i \in 1 .. Len(k) : s[i] # k[i]}) = 1
     \/ Len(s) = Len(k) /\ \E i \in 1 .. Len(k) - 1 : TransposeAt(k, i) = s

C7_NeverADefault ==
  Looked =>
    \/ /\ Out.kind = "return"
       /\ Out.exc = "None"
       /\ Out.factory \in DictValueSet(tool_functions)
    \/ /\ Out.kind = "raise"
       /\ Out.exc = "KeyError"
       /\ Out.key = Req

\* "Tool": no exact, normalized or close match
C7_Witness ==
  /\ Looked
  /\ Req = <<84, 111, 111, 108>>
  /\ Out.via = "miss"
  /\ Out.kind = "raise"
  /\ Out.exc = "KeyError"
  /\ Out.key = Req

\* C8: for every canonical key k the Normalized Index maps _normalize(k) to
\* k: every canonical key is in the index and none is shadowed by another.
C8_IndexMapsNormalizedKeyToKey ==
  \A k \in DictKeySet(tool_functions) :
    /\ DictHas(_normalized_index, _normalize(k))
    /\ DictGet(_normalized_index, _normalize(k)) = k

\* the index of a registry whose optional ESM tool is the placeholder
C8_Witness ==
  /\ Len(tool_functions) = 8
  /\ DictGet(tool_functions, KeyESMMigrationTool) = _ctor("_ESMDummy")
  /\ Len(_normalized_index) = 8
  /\ DictGet(_normalized_index, _normalize(KeyESMMigrationTool)) = KeyESMMigrationTool

\* C9: for every canonical key k, resolving _normalize(k) gives what
\* resolving k gives: the same factory.
C9_KeyAndNormalizedKeyAgree ==
  Looked =>
    \A k \in DictKeySet(Registry) :
      Req = _normalize(k) =>
        /\ Out.kind = _ToolMap__getitem__(Registry, k).kind
        /\ Out.factory = _ToolMap__getitem__(Registry, k).factory

C9_Witness ==
  /\ Looked
  /\ Req = _normalize(KeyNodeVersionMigrator)
  /\ Out.kind = "return"
  /\ Out.factory = _ctor("NodeVersionMigrator")
  /\ _ToolMap__getitem__(Registry, KeyNodeVersionMigrator).factory = Out.factory

\* C10: _normalize is idempotent: _normalize(_normalize(s)) = _normalize(s)
\* for every request s. (It reads nothing but its argument, so equal
\* arguments give equal results whatever was called before.)
C10_NormalizeIdempotent ==
  Looked => _normalize(_normalize(Req)) = _normalize(Req)

\* U+00B4 + "x", which normalization changes to U+0301 + "x"
C10_Witness ==
  /\ Looked
  /\ Req = <<180, 120>>
  /\ _normalize(Req) = <<769, 120>>
  /\ Out.nkey = <<_normalize(Req)>>
  /\ _normalize(Out.nkey[1]) = Out.nkey[1]

\* C11: for every input the output of _normalize has its whitespace collapsed
\* to single spaces: no whitespace character other than the ASCII space, no
\* space at either end, and no two spaces next to each other
C11_NormalizeCollapsesWhitespace ==
  Looked =>
    LET n == _normalize(Req)
    IN  /\ \A i \in 1 .. Len(n) : IsSpace(n[i]) => n[i] = SP
        /\ n # << >> => (n[1] # SP /\ n[Len(n)] # SP)
        /\ \A i \in 1 .. Len(n) - 1 : ~(n[i] = SP /\ n[i + 1] = SP)

\* C12: a lookup repeated with the same key gives the result it gave before,
\* and no lookup, hit or miss, changes the map it is made on, the registry
\* or the Normalized Index
C12_RepeatedLookupSameResultNoMutation ==
  [][request' # << >> =>
       /\ reg' = reg
       /\ tool_functions' = tool_functions
       /\ _normalized_index' = _normalized_index
       /\ request' = request => outcome' = outcome]_vars

\* "  Test Generator " looked up twice, resolved through the index both times
C12_Witness ==
  /\ Looked
  /\ repeated
  /\ Req = <<SP, SP>> \o KeyTestGenerator \o <<SP>>
  /\ Out.kind = "return"
  /\ Out.via = "normalized"
  /\ Registry = tool_functions

\* the registry as built at import: both optional imports succeeded or failed
BuiltAtImport(tf) ==
  \E esm, native \in BOOLEAN :
    tf = BuildToolFunctions(ESMMigrationTool(esm), NativeModuleMigrator(native))

\* C13 as stated: the registry and the index are created once and never
\* mutated or rebuilt, and no call of get_tool_functions constructs a new
\* registry: the map a caller holds is the one registry
C13_CreatedOnceNeverRebuilt ==
  /\ BuiltAtImport(tool_functions)
  /\ _normalized_index = BuildNormalizedIndex(tool_functions)
  /\ reg # << >> => (~reg_new /\ Registry = tool_functions)

\* C13 amended: tool_functions and the Normalized Index are never changed
\* after module initialization, by no call, lookup or operation on a map a
\* caller was given, and every map a caller holds is a _ToolMap constructed
\* by the get_tool_functions call that returned it
C13_RegistryFixedNewMapPerCall ==
  [][/\ tool_functions' = tool_functions
     /\ _normalized_index' = _normalized_index
     /\ reg' # << >> => reg_new']_vars

\* a caller has removed entries from its map; the registry still has all
\* eight names
C13_Witness ==
  /\ reg # << >>
  /\ reg_new
  /\ Len(Registry) < Len(tool_functions)
  /\ BuiltAtImport(tool_functions)
  /\ _normalized_index = BuildNormalizedIndex(tool_functions)

\* the classes a factory of the registry makes an instance of
ToolClasses ==
  {"NodeCodeAnalyzer", "DependencyAnalyzer", "WatchdogServiceAnalyzer", "SecurityScanner",
   "TestGenerator", "NodeVersionMigrator", "ESMMigrationTool", "_ESMDummy",
   "NativeModuleMigrator", "_NativeDummy"}

\* C15: whichever of the two optional imports failed, the registry holds
\* exactly the eight canonical names, each once and each with a factory
C15_RegistryFullyBuilt ==
  /\ DictKeySet(tool_functions) = CanonicalKeys
  /\ Len(tool_functions) = Cardinality(CanonicalKeys)
  /\ \A i \in 1 .. Len(tool_functions) : tool_functions[i][2].cls \in ToolClasses

\* both optional imports failed and a caller has the map of eight names
C15_Witness ==
  /\ DictGet(tool_functions, KeyESMMigrationTool) = _ctor("_ESMDummy")
  /\ DictGet(tool_functions, KeyNativeModuleMigrator) = _ctor("_NativeDummy")
  /\ reg # << >>
  /\ DictKeySet(Registry) = CanonicalKeys

(***************************************************************************)
(* The tools.  A tool object is known by its class.  The result of a call  *)
(* is what it returned (a dict, as a record, or a str) or the exception it *)
(* raised.                                                                 *)
(***************************************************************************)
Return(v) == [kind |-> "return", exc |-> "None", value |-> v]

Raise(e) == [kind |-> "raise", exc |-> e, value |-> "None"]

\* a placeholder whose _run raises instead of returning the payload
PlaceholderRunRaising(cls, args) == Raise("ImportError")

\* custom_tools.py lines 28-29 and 41-42: _run(self, *args, **kwargs) of the
\* two placeholder classes
PlaceholderRun(cls, args) ==
  IF cls = "_ESMDummy" THEN Return([error |-> "ESM Migration Tool not available"])
  ELSE Return([error |-> "Native Module Migrator not available"])

\* the arguments a caller passes to a tool it believes to be the real one
PlaceholderArgs == {<< >>, <<"./app">>, <<"./app", "full">>, <<"./ffi.js", "koffi">>}

\* crew.py, self.toolset()["..."](): the factory that the lookup returned is
\* called, and _ctor's lambda makes an instance of its class
CallFactory ==
  /\ request # << >>
  /\ outcome[1].kind = "return"
  /\ instance' = <<outcome[1].factory.cls>>
  /\ run' = << >>
  /\ request' = << >>
  /\ outcome' = << >>
  /\ repeated' = FALSE
  /\ UNCHANGED <<tool_functions, _normalized_index, reg, reg_new, imports, crewVars, fs, results, nodeVars>>

\* tool.run(*args) on a placeholder
RunPlaceholder(args) ==
  /\ instance # << >>
  /\ instance[1] \in {"_ESMDummy", "_NativeDummy"}
  /\ run' = <<[tool |-> instance[1], args |-> args,
               result |-> PlaceholderRun(instance[1], args)]>>
  /\ UNCHANGED <<tool_functions, _normalized_index, reg, reg_new, request, outcome,
                 repeated, imports, instance, crewVars, fs, results, nodeVars>>

\* the caller drops the tool object, and the files it worked on are removed
Discard ==
  /\ instance # << >>
  /\ instance' = << >>
  /\ run' = << >>
  /\ fs' = NoFiles
  /\ results' = << >>
  /\ UNCHANGED <<tool_functions, _normalized_index, reg, reg_new, request, outcome,
                 repeated, imports, crewVars, nodeVars>>

(***************************************************************************)
(* The newcrew template: MyCustomTool, the crew that Newcrew().crew()      *)
(* builds, and the kickoff of the two tests with Task.execute_sync         *)
(* replaced by fake_execute.                                               *)
(***************************************************************************)
registryVars ==
  <<tool_functions, _normalized_index, reg, reg_new, request, outcome, repeated, imports>>

\* a tool that hands its argument back
MyCustomToolEcho(argument) == Return(argument)

\* newcrew/tools/custom_tool.py lines 20-21
MyCustomTool_run(argument) ==
  Return("this is an example of a tool output, ignore it and move along.")

\* the argument values of the two tests and three more
Arguments == {"test", "data", "", "this is an example", "tool output"}

\* the most calls made on one tool object
MaxCalls == 3

\* Newcrew().crew(): the researcher, with the custom tool first among its
\* tools, and the reporting analyst, each with one task
Newcrew_crew ==
  [agents |-> <<[role |-> "researcher", tools |-> <<"MyCustomTool">>],
                [role |-> "reporting_analyst", tools |-> << >>]>>,
   tasks |-> <<[agent |-> 1], [agent |-> 2]>>]

\* an execute_sync that never runs a tool
fake_execute_no_tools(agent) == "no tools"

\* tests/test_newcrew_tool_integration.py lines 17-22: the raw output of a
\* task run by fake_execute
fake_execute(agent) ==
  IF agent.tools # << >> THEN MyCustomTool_run("test").value ELSE "no tools"

\* crew = Newcrew().crew()
BuildCrew ==
  /\ crew = << >>
  /\ crew' = <<Newcrew_crew>>
  /\ UNCHANGED <<registryVars, instance, run, output, fs, results, nodeVars>>

\* output = crew.kickoff(), every task executed by fake_execute
Kickoff ==
  /\ crew # << >>
  /\ output' = <<[tasks_output |->
                    [t \in 1 .. Len(crew[1].tasks) |->
                       [raw |-> fake_execute(crew[1].agents[crew[1].tasks[t].agent]),
                        agent |-> crew[1].agents[crew[1].tasks[t].agent].role]]]>>
  /\ UNCHANGED <<registryVars, instance, run, crew, fs, results, nodeVars>>

\* researcher.tools[0].run(argument=...), the call-th call on that tool
RunMyCustomTool(argument) ==
  /\ crew # << >>
  /\ crew[1].agents[1].tools # << >>
  /\ crew[1].agents[1].tools[1] = "MyCustomTool"
  /\ run # << >> => run[1].call < MaxCalls
  /\ run' = <<[tool |-> "MyCustomTool", args |-> <<argument>>,
               result |-> MyCustomTool_run(argument),
               call |-> IF run = << >> THEN 1 ELSE run[1].call + 1]>>
  /\ UNCHANGED <<registryVars, instance, crewVars, fs, results, nodeVars>>

\* the test is over: the crew and what it produced are dropped
DropCrew ==
  /\ crew # << >>
  /\ crew' = << >>
  /\ output' = << >>
  /\ run' = << >>
  /\ UNCHANGED <<registryVars, instance, fs, results, nodeVars>>

NewcrewNext ==
  \/ BuildCrew
  \/ Kickoff
  \/ \E argument \in Arguments : RunMyCustomTool(argument)
  \/ DropCrew

NewcrewSpec == Init /\ [][NewcrewNext]_vars

(***************************************************************************)
(* Files.  The text of a file is known by what it holds: "cjs" a CommonJS  *)
(* module with static requires, "cjs_dynamic" one with a computed require, *)
(* "ffi" one that loads kernel32 through ffi-napi and binds OpenProcess,   *)
(* "esm" an ES module, "mixed" both kinds of syntax, "plain" neither, and  *)
(* "binary" bytes that are not UTF-8.  A text that a tool wrote is the     *)
(* name of what was written followed by the text it was made from.         *)
(***************************************************************************)
JsTexts == {"cjs", "cjs_dynamic", "ffi", "esm", "mixed", "plain", "binary"}

Tree(a, b, pkg) ==
  [p \in Paths |->
     CASE p = "app" -> Directory
       [] p = "app/a.js" -> a
       [] p = "app/b.js" -> b
       [] p = "app/package.json" -> pkg
       [] OTHER -> Absent]

\* the projects a tool is given; some have a directory where the migration
\* of app/a.js would put its .mjs file
Trees ==
  {Tree(a, b, pkg) :
     a \in {Absent} \cup {File(<<t>>) : t \in JsTexts},
     b \in {Absent, File(<<"cjs">>), File(<<"binary">>)},
     pkg \in {Absent, File(<<"json">>), File(<<"not json">>)}}
    \cup {[Tree(a, b, pkg) EXCEPT !["app/a.mjs"] = Directory] :
            a \in {File(<<"cjs">>), File(<<"cjs_dynamic">>)},
            b \in {Absent, File(<<"cjs">>), File(<<"plain">>)},
            pkg \in {Absent, File(<<"json">>)}}

\* Path(p).exists()
Exists(p) == fs[p].kind # "absent"

\* Path(p).read_text(encoding='utf-8') on the file system fsys
ReadText(fsys, p) ==
  IF fsys[p].kind = "absent" THEN Raise("FileNotFoundError")
  ELSE IF fsys[p].kind = "dir" THEN Raise("IsADirectoryError")
  ELSE IF fsys[p].text = <<"binary">> THEN Raise("UnicodeDecodeError")
  ELSE Return(fsys[p].text)

read_text(p) == ReadText(fs, p)

\* Path(p).write_text(text) on the file system fsys: the file system with
\* the file written, or the exception
WriteText(fsys, p, text) ==
  IF fsys[p].kind = "dir" THEN Raise("IsADirectoryError")
  ELSE Return([fsys EXCEPT ![p] = File(text)])

\* the files are put in place for the tool a caller has made
PutFiles(tree) ==
  /\ instance # << >>
  /\ run = << >>
  /\ fs = NoFiles
  /\ fs' = tree
  /\ UNCHANGED <<registryVars, instance, run, crewVars, results, nodeVars>>

(***************************************************************************)
(* NativeModuleMigrator.  A Python value that is added to a str is a str   *)
(* (a list of parts) or a dict (the list of its keys).                     *)
(***************************************************************************)
PyStr(parts) == [type |-> "str", val |-> parts]

PyDict(keys) == [type |-> "dict", val |-> keys]

\* lines 61-93, for the texts in use: the lengths of the six findall lists,
\* the APIs of the loaded Windows libraries that occur in the text
FfiPatterns(content) ==
  IF content = <<"ffi">>
  THEN [library_loads |-> 1, struct_definitions |-> 0, function_bindings |-> 1,
        callbacks |-> 0, buffer_usage |-> 0, pointer_operations |-> 0,
        used_apis |-> {"OpenProcess"}]
  ELSE [library_loads |-> 0, struct_definitions |-> 0, function_bindings |-> 0,
        callbacks |-> 0, buffer_usage |-> 0, pointer_operations |-> 0, used_apis |-> {}]

_assess_complexity(patterns) ==
  LET score == patterns.callbacks * 3 + patterns.struct_definitions * 2
                 + patterns.pointer_operations * 2 + patterns.function_bindings
  IN  IF score > 20 THEN "high" ELSE IF score > 10 THEN "medium" ELSE "low"

_assess_risk(patterns) ==
  IF patterns.used_apis \cap {"ReadProcessMemory", "WriteProcessMemory", "OpenProcess"} # {}
  THEN "high"
  ELSE IF patterns.callbacks > 2 THEN "medium" ELSE "low"

_analyze_ffi_usage(content) ==
  [patterns |-> FfiPatterns(content),
   complexity |-> _assess_complexity(FfiPatterns(content)),
   risk_level |-> _assess_risk(FfiPatterns(content))]

\* lines 95-146: a str, the wrapper in front of the rewritten content
_migrate_to_koffi(content, analysis) == PyStr(<<"error_wrapper", "koffi">> \o content)

\* lines 148-175: annotated "-> str", returns a dict
_migrate_to_node_api(content, analysis) ==
  PyDict(<<"js_wrapper", "cpp_binding", "gyp_config">>)

\* lines 177-243: a dict
_create_hybrid_solution(content, analysis) ==
  PyDict(<<"hybrid_wrapper", "pure_js_alternatives", "migration_notes">>)

\* lines 245-281: compatibility_layer + "\n\n" + code, a TypeError when code
\* is not a str
_add_compatibility_layer(code, analysis) ==
  IF code.type = "str" THEN Return(PyStr(<<"compatibility_layer">> \o code.val))
  ELSE Raise("TypeError")

\* lines 23-59
NativeModuleMigrator_run(file_path, target_solution) ==
  IF ~Exists(file_path) THEN Return([error |-> <<"File not found: ", file_path>>])
  ELSE LET content == read_text(file_path)
           analysis == _analyze_ffi_usage(content.value)
           migrated ==
             CASE target_solution = "koffi" -> _migrate_to_koffi(content.value, analysis)
               [] target_solution = "node-api" -> _migrate_to_node_api(content.value, analysis)
               [] target_solution = "hybrid" -> _create_hybrid_solution(content.value, analysis)
               [] OTHER -> PyStr(<< >>)
           layered == _add_compatibility_layer(migrated, analysis)
       IN  IF content.kind = "raise" THEN content
           ELSE IF target_solution \notin {"koffi", "node-api", "hybrid"}
           THEN Return([error |-> <<"Unknown target solution: ", target_solution>>])
           ELSE IF layered.kind = "raise" THEN layered
           ELSE Return([status |-> "success", original_file |-> file_path,
                        analysis |-> analysis, migrated_code |-> layered.value])

\* the documented targets, one that is not, and the paths of a file and of
\* the directory
Targets == {"koffi", "node-api", "hybrid", "wasm"}

NativeArgs ==
  {<<p>> : p \in {"app/a.js", "app"}} \cup {<<p, t>> : p \in {"app/a.js", "app"}, t \in Targets}

\* tool.run(file_path[, target_solution]); target_solution defaults to "koffi"
RunNativeModuleMigrator(args) ==
  /\ instance = <<"NativeModuleMigrator">>
  /\ run' = <<[tool |-> "NativeModuleMigrator", args |-> args,
               result |-> NativeModuleMigrator_run(args[1],
                            IF Len(args) > 1 THEN args[2] ELSE "koffi")]>>
  /\ UNCHANGED <<registryVars, instance, crewVars, fs, results, nodeVars>>

(***************************************************************************)
(* NodeCodeAnalyzer._run.  The lists of results are kept by their lengths, *)
(* which is all that the score reads.  found is what one file adds: the    *)
(* deprecated APIs that occur in it, whether it has callback patterns and  *)
(* var declarations, and the legacy patterns that occur in it.             *)
(***************************************************************************)
\* the most files a scanned directory holds
MaxFiles == 3

\* no API, one, or all twelve of deprecated_apis; no legacy pattern or all
\* five of legacy_checks
FileFindings ==
  [deprecated_apis : {0, 1, 12}, callback_patterns : {0, 1}, var_declarations : {0, 1},
   legacy_patterns : {0, 5}]

\* the score without its lower end
ScoreNotClamped(r) ==
  IF r.total_files = 0 THEN 100
  ELSE 100 - (r.deprecated_apis * 3 + r.callback_patterns * 2 + r.var_declarations
                + r.legacy_patterns * 2) * 2

\* custom_tool.py lines 147-161
_calculate_modernization_score(r) ==
  IF r.total_files = 0 THEN 100
  ELSE LET issues == r.deprecated_apis * 3 + r.callback_patterns * 2 + r.var_declarations
                       + r.legacy_patterns * 2
       IN  IF 100 - issues * 2 > 0 THEN 100 - issues * 2 ELSE 0

\* lines 34-42: the results dict before the loop
StartScan ==
  /\ instance = <<"NodeCodeAnalyzer">>
  /\ results = << >>
  /\ results' = <<[deprecated_apis |-> 0, callback_patterns |-> 0, var_declarations |-> 0,
                   legacy_patterns |-> 0, total_files |-> 0, errors |-> 0,
                   analysis_summary |-> << >>]>>
  /\ UNCHANGED <<registryVars, instance, run, crewVars, fs, nodeVars>>

\* lines 62-118: one file of the loop that no exclusion pattern matches
ScanFile(found) ==
  /\ results # << >>
  /\ results[1].analysis_summary = << >>
  /\ results[1].total_files < MaxFiles
  /\ results' = <<[results[1] EXCEPT
                     !.total_files = @ + 1,
                     !.deprecated_apis = @ + found.deprecated_apis,
                     !.callback_patterns = @ + found.callback_patterns,
                     !.var_declarations = @ + found.var_declarations,
                     !.legacy_patterns = @ + found.legacy_patterns]>>
  /\ UNCHANGED <<registryVars, instance, run, crewVars, fs, nodeVars>>

\* lines 67-125: a file that cannot be read is counted and lands in errors
ScanUnreadableFile ==
  /\ results # << >>
  /\ results[1].analysis_summary = << >>
  /\ results[1].total_files < MaxFiles
  /\ results' = <<[results[1] EXCEPT !.total_files = @ + 1, !.errors = @ + 1]>>
  /\ UNCHANGED <<registryVars, instance, run, crewVars, fs, nodeVars>>

\* lines 127-137: the summary, and the results returned
FinishScan ==
  /\ results # << >>
  /\ results[1].analysis_summary = << >>
  /\ results' = <<[results[1] EXCEPT
                     !.analysis_summary =
                       <<[total_files_analyzed |-> results[1].total_files,
                          modernization_score |->
                            _calculate_modernization_score(results[1])]>>]>>
  /\ run' = <<[tool |-> "NodeCodeAnalyzer", args |-> <<"app">>,
               result |-> Return(results'[1])]>>
  /\ UNCHANGED <<registryVars, instance, crewVars, fs, nodeVars>>

ScanNext ==
  \/ get_tool_functions
  \/ Lookup(KeyNodeCodeAnalyzer)
  \/ CallFactory
  \/ StartScan
  \/ \E found \in FileFindings : ScanFile(found)
  \/ ScanUnreadableFile
  \/ FinishScan
  \/ Discard

ScanSpec == Init /\ [][ScanNext]_vars

(***************************************************************************)
(* ESMMigrationTool.  order is the order in which rglob yields the files.  *)
(* An operation that writes files gives the file system it leaves behind   *)
(* along with its result.                                                  *)
(***************************************************************************)
\* project.rglob("*.js"): the sources below a directory, none below a file
JsFilesOf(project) ==
  IF fs[project].kind = "dir" /\ project = "app"
  THEN {p \in {"app/a.js", "app/b.js"} : Exists(p)}
  ELSE {}

\* every order of the elements of the set S
Orders(S) ==
  {o \in [1 .. Cardinality(S) -> S] : \A i, j \in 1 .. Cardinality(S) : o[i] = o[j] => i = j}

\* project / "package.json"; a path that is a file has nothing below it
PackageJsonOf(project) == IF project = "app" THEN <<"app/package.json">> ELSE << >>

\* file.with_suffix('.mjs')
with_suffix_mjs(p) == IF p = "app/a.js" THEN "app/a.mjs" ELSE "app/b.mjs"

\* lines 86-89
has_require(text) == text[1] \in {"cjs", "cjs_dynamic", "ffi", "mixed"}

has_import(text) == text[1] \in {"esm", "mixed"}

\* lines 92-115: one file entered into the analysis
Categorize(analysis, p, text) ==
  [analysis EXCEPT
     !.commonjs_files = IF has_require(text) /\ ~has_import(text) THEN Append(@, p) ELSE @,
     !.esm_files = IF has_import(text) /\ ~has_require(text) THEN Append(@, p) ELSE @,
     !.mixed_files = IF has_import(text) /\ has_require(text) THEN Append(@, p) ELSE @,
     !.problematic_patterns = IF text[1] = "cjs_dynamic" THEN Append(@, p) ELSE @,
     !.dynamic_requires = IF text[1] = "cjs_dynamic" THEN Append(@, p) ELSE @,
     !.native_modules = IF text[1] = "ffi" THEN Append(@, p) ELSE @]

\* lines 77-115: the loop; a file that cannot be read ends the analysis with
\* the exception of read_text
RECURSIVE ScanJsFiles(_, _)
ScanJsFiles(files, analysis) ==
  IF files = << >> THEN Return(analysis)
  ELSE LET content == ReadText(fs, files[1])
           counted == [analysis EXCEPT !.total_files = @ + 1]
       IN  IF content.kind = "raise" THEN content
           ELSE ScanJsFiles(Tail(files), Categorize(counted, files[1], content.value))

\* lines 62-129
_analyze_project_structure(project, order) ==
  LET scanned ==
        ScanJsFiles(order,
                    [total_files |-> 0, commonjs_files |-> << >>, esm_files |-> << >>,
                     mixed_files |-> << >>, entry_points |-> << >>,
                     problematic_patterns |-> << >>, native_modules |-> << >>,
                     dynamic_requires |-> << >>])
      package_json == PackageJsonOf(project)
  IN  IF scanned.kind = "raise" \/ package_json = << >> \/ ~Exists(package_json[1])
      THEN scanned
      ELSE LET pkg == ReadText(fs, package_json[1])
           IN  IF pkg.kind = "raise" THEN pkg
               ELSE IF pkg.value # <<"json">> THEN Raise("JSONDecodeError")
               ELSE Return([scanned.value EXCEPT !.entry_points = <<"index.js">>])

\* lines 393-404
_determine_migration_order(analysis) ==
  analysis.commonjs_files \o analysis.esm_files \o analysis.mixed_files

InSeq(x, s) == \E i \in 1 .. Len(s) : s[i] = x

\* lines 368-391; no text in use has a relative require, so no circular
\* dependency is ever recorded
_can_safely_migrate(file_path, analysis) ==
  /\ ~InSeq(file_path, analysis.problematic_patterns)
  /\ ~InSeq(file_path, analysis.dynamic_requires)
  /\ ~InSeq(file_path, analysis.native_modules)

\* the loop with a file listed as migrated before its .mjs file is written
RECURSIVE HybridFilesListingFirst(_, _, _)
HybridFilesListingFirst(order, analysis, acc) ==
  IF order = << >> THEN acc
  ELSE LET file == order[1]
           content == ReadText(acc.fs, file)
           esm_file == with_suffix_mjs(file)
           written == WriteText(acc.fs, esm_file, <<"esm_of">> \o content.value)
           next ==
             IF content.kind = "raise"
             THEN [acc EXCEPT !.errors = Append(@, file)]
             ELSE IF _can_safely_migrate(file, analysis)
             THEN IF written.kind = "raise"
                  THEN [acc EXCEPT !.migrated_files = Append(@, esm_file),
                                   !.errors = Append(@, file)]
                  ELSE [acc EXCEPT
                          !.fs = WriteText(written.value, file, <<"cjs_wrapper">>).value,
                          !.migrated_files = Append(@, esm_file),
                          !.wrapper_files = Append(@, file)]
             ELSE [acc EXCEPT
                     !.fs = WriteText(@, file, <<"esm_compat">> \o content.value).value,
                     !.unchanged_files = Append(@, file)]
       IN  HybridFilesListingFirst(Tail(order), analysis, next)

\* lines 131-179, the loop: the files of the order, one after the other,
\* on the file system that the files before them left.  A write that raises
\* is caught like a read that raises; a file that was just read is a file,
\* so writing it back does not raise.
RECURSIVE HybridFiles(_, _, _)
HybridFiles(order, analysis, acc) ==
  IF order = << >> THEN acc
  ELSE LET file == order[1]
           content == ReadText(acc.fs, file)
           esm_file == with_suffix_mjs(file)
           written == WriteText(acc.fs, esm_file, <<"esm_of">> \o content.value)
           next ==
             IF content.kind = "raise"
             THEN [acc EXCEPT !.errors = Append(@, file)]
             ELSE IF _can_safely_migrate(file, analysis)
             THEN IF written.kind = "raise"
                  THEN [acc EXCEPT !.errors = Append(@, file)]
                  ELSE [acc EXCEPT
                          !.fs = WriteText(written.value, file, <<"cjs_wrapper">>).value,
                          !.migrated_files = Append(@, esm_file),
                          !.wrapper_files = Append(@, file)]
             ELSE [acc EXCEPT
                     !.fs = WriteText(@, file, <<"esm_compat">> \o content.value).value,
                     !.unchanged_files = Append(@, file)]
       IN  HybridFiles(Tail(order), analysis, next)

\* lines 304-325: package.json, when there is one, is read, merged with the
\* dual-mode configuration and written back
_update_package_json_hybrid(project, fsys) ==
  LET package_json == PackageJsonOf(project)
  IN  IF package_json = << >> \/ fsys[package_json[1]].kind = "absent"
      THEN [raised |-> "None", fs |-> fsys]
      ELSE LET pkg == ReadText(fsys, package_json[1])
           IN  IF pkg.kind = "raise" THEN [raised |-> pkg.exc, fs |-> fsys]
               ELSE IF pkg.value[Len(pkg.value)] # "json"
               THEN [raised |-> "JSONDecodeError", fs |-> fsys]
               ELSE [raised |-> "None",
                     fs |-> [fsys EXCEPT
                               ![package_json[1]] = File(<<"hybrid_config">> \o pkg.value)]]

\* lines 131-179
_apply_hybrid_strategy(project, analysis, order) ==
  LET looped == HybridFiles(order, analysis,
                            [fs |-> fs, migrated_files |-> << >>, wrapper_files |-> << >>,
                             unchanged_files |-> << >>, errors |-> << >>])
      updated == _update_package_json_hybrid(project, looped.fs)
  IN  [looped EXCEPT !.fs = updated.fs] @@ [raised |-> updated.raised]

\* lines 549-564, the loop
RECURSIVE FullFiles(_, _)
FullFiles(files, acc) ==
  IF files = << >> THEN acc
  ELSE LET file == files[1]
           content == ReadText(acc.fs, file)
           next ==
             IF content.kind = "raise"
             THEN [acc EXCEPT !.errors = Append(@, file)]
             ELSE [acc EXCEPT
                     !.fs = [@ EXCEPT ![file] = File(<<"esm_of">> \o content.value)],
                     !.migrated_files = Append(@, file)]
       IN  FullFiles(Tail(files), next)

\* lines 549-564: only the CommonJS files, rewritten in place
_apply_full_migration(project, analysis, order) ==
  FullFiles(analysis.commonjs_files,
            [fs |-> fs, migrated_files |-> << >>, wrapper_files |-> << >>,
             unchanged_files |-> << >>, errors |-> << >>])
    @@ [raised |-> "None"]

\* lines 459-475, the summary of the report
_create_migration_report(result, analysis) ==
  [total_files |-> analysis.total_files, migrated |-> Len(result.migrated_files),
   wrapped |-> Len(result.wrapper_files), unchanged |-> Len(result.unchanged_files),
   errors |-> Len(result.errors)]

\* lines 23-60: the result of the call and the file system after it
ESMMigrationTool_run(project_path, strategy, order) ==
  IF ~Exists(project_path)
  THEN [result |-> Return([error |-> <<"Project path not found: ", project_path>>]),
        fs |-> fs]
  ELSE LET analysis == _analyze_project_structure(project_path, order)
           migration_order == _determine_migration_order(analysis.value)
           applied ==
             IF strategy = "full"
             THEN _apply_full_migration(project_path, analysis.value, migration_order)
             ELSE _apply_hybrid_strategy(project_path, analysis.value, migration_order)
       IN  IF analysis.kind = "raise" THEN [result |-> analysis, fs |-> fs]
           ELSE IF strategy \notin {"hybrid", "gradual", "full"}
           THEN [result |-> Return([error |-> <<"Unknown strategy: ", strategy>>]),
                 fs |-> fs]
           ELSE IF applied.raised # "None" THEN [result |-> Raise(applied.raised),
                                                  fs |-> applied.fs]
           ELSE [result |->
                   Return([status |-> "success", strategy |-> strategy,
                           analysis |-> analysis.value,
                           migration_result |->
                             [migrated_files |-> applied.migrated_files,
                              wrapper_files |-> applied.wrapper_files,
                              unchanged_files |-> applied.unchanged_files,
                              errors |-> applied.errors],
                           report |-> _create_migration_report(applied, analysis.value)]),
                 fs |-> applied.fs]

\* the three strategies and one that is none of them
Strategies == {"hybrid", "gradual", "full", "big-bang"}

ESMArgs ==
  {<<p>> : p \in {"app", "app/a.js"}}
    \cup {<<p, s>> : p \in {"app", "app/a.js"}, s \in Strategies}

\* tool.run(project_path[, strategy]); strategy defaults to "hybrid".  The
\* run record keeps the file system as the call found it.
RunESMMigrationTool(args, order) ==
  /\ instance = <<"ESMMigrationTool">>
  /\ run = << >>
  /\ LET ran == ESMMigrationTool_run(args[1], IF Len(args) > 1 THEN args[2] ELSE "hybrid",
                                     order)
     IN  /\ run' = <<[tool |-> "ESMMigrationTool", args |-> args, before |-> fs,
                      result |-> ran.result]>>
         /\ fs' = ran.fs
  /\ UNCHANGED <<registryVars, instance, crewVars, results, nodeVars>>

(***************************************************************************)
(* The tools of the registry in use: a caller looks a name up, calls the   *)
(* factory, gets files put in place and runs the tool.                     *)
(***************************************************************************)
\* the names of the two tools whose import may fail
OptionalKeys == {KeyESMMigrationTool, KeyNativeModuleMigrator}

ToolNext ==
  \/ get_tool_functions
  \/ \E key \in OptionalKeys : Lookup(key)
  \/ Proceed
  \/ CallFactory
  \/ \E args \in PlaceholderArgs : RunPlaceholder(args)
  \/ \E tree \in Trees : PutFiles(tree)
  \/ \E args \in NativeArgs : RunNativeModuleMigrator(args)
  \/ \E args \in ESMArgs : \E order \in Orders(JsFilesOf(args[1])) :
       RunESMMigrationTool(args, order)
  \/ Discard

ToolSpec == Init /\ [][ToolNext]_vars

\* C14: when the import of an optional tool failed, the registry maps the
\* tool's canonical name to the factory of its placeholder, the lookup of
\* the name returns that factory, and a call of the placeholder returns the
\* payload {"error": "<name> not available"} and does not raise
C14_PlaceholderOnFailedImport ==
  /\ ~imports.esm =>
       /\ DictGet(tool_functions, KeyESMMigrationTool) = _ctor("_ESMDummy")
       /\ (Looked /\ Req = KeyESMMigrationTool) => Out.kind = "return" /\ Out.factory = _ctor("_ESMDummy")
  /\ ~imports.native =>
       /\ DictGet(tool_functions, KeyNativeModuleMigrator) = _ctor("_NativeDummy")
       /\ (Looked /\ Req = KeyNativeModuleMigrator) =>
            Out.kind = "return" /\ Out.factory = _ctor("_NativeDummy")
  /\ (run # << >> /\ run[1].tool = "_ESMDummy") =>
       run[1].result = Return([error |-> "ESM Migration Tool not available"])
  /\ (run # << >> /\ run[1].tool = "_NativeDummy") =>
       run[1].result = Return([error |-> "Native Module Migrator not available"])

\* the native migrator's import failed, its name was looked up, the factory
\* called and the placeholder run with the real tool's arguments
C14_Witness ==
  /\ ~imports.native
  /\ instance = <<"_NativeDummy">>
  /\ run # << >>
  /\ run[1].args = <<"./ffi.js", "koffi">>
  /\ run[1].result.kind = "return"
  /\ run[1].result.value.error = "Native Module Migrator not available"

\* C16: MyCustomTool returns the same canned string for every value of its
\* argument and on every invocation
C16_MyCustomToolCannedOutput ==
  (run # << >> /\ run[1].tool = "MyCustomTool") =>
    run[1].result = Return("this is an example of a tool output, ignore it and move along.")

\* the tool run with an argument that is the beginning of the canned string
C16_Witness ==
  /\ run # << >>
  /\ run[1].tool = "MyCustomTool"
  /\ run[1].call = 2
  /\ run[1].args = <<"this is an example">>
  /\ run[1].result.kind = "return"
  /\ run[1].result.value # run[1].args[1]

C18_NativeMigratorSucceedsOrReports ==
  (run # << >> /\ run[1].tool = "NativeModuleMigrator") =>
    LET path == run[1].args[1]
        target == IF Len(run[1].args) > 1 THEN run[1].args[2] ELSE "koffi"
        result == run[1].result
    IN  /\ result.kind = "return"
        /\ (fs[path].kind = "file" /\ target \in {"koffi", "node-api", "hybrid"}) =>
             /\ "status" \in DOMAIN result.value
             /\ result.value.status = "success"
             /\ "migrated_code" \in DOMAIN result.value
        /\ "error" \in DOMAIN result.value =>
             (~Exists(path) \/ target \notin {"koffi", "node-api", "hybrid"})

\* C19: the modernization score is an integer from 0 to 100: 100 when no
\* file was analyzed and otherwise the larger of 0 and
\* 100 - 2 * (3 * deprecated + 2 * callbacks + vars + 2 * legacy); the
\* summary holds that score, and no file added to the results raises it
C19_ScoreFormulaRangeMonotone ==
  [][results' # << >> =>
       LET r == results'[1]
           issues == 3 * r.deprecated_apis + 2 * r.callback_patterns + r.var_declarations
                       + 2 * r.legacy_patterns
           score == _calculate_modernization_score(r)
       IN  /\ score \in 0 .. 100
           /\ r.total_files = 0 => score = 100
           /\ r.total_files # 0 => score = SetMax({0, 100 - 2 * issues})
           /\ r.analysis_summary # << >> => r.analysis_summary[1].modernization_score = score
           /\ results # << >> => score <= _calculate_modernization_score(results[1])]_vars

\* a finished run over files with so many findings that the score is held at 0
C19_Witness ==
  /\ results # << >>
  /\ results[1].analysis_summary # << >>
  /\ results[1].total_files = 2
  /\ results[1].deprecated_apis = 24
  /\ results[1].analysis_summary[1].modernization_score = 0
  /\ run # << >>
  /\ run[1].result.value = results[1]

\* C20: for a project path that does not exist, and for a strategy other
\* than hybrid, gradual and full, ESMMigrationTool._run returns an error
\* result, and the call leaves every file of the project as it found it
C20_ESMErrorsLeaveProjectUntouched ==
  (run # << >> /\ run[1].tool = "ESMMigrationTool") =>
    LET project == run[1].args[1]
        strategy == IF Len(run[1].args) > 1 THEN run[1].args[2] ELSE "hybrid"
        result == run[1].result
    IN  (run[1].before[project].kind = "absent" \/ strategy \notin {"hybrid", "gradual", "full"}) =>
          /\ result.kind = "return"
          /\ "error" \in DOMAIN result.value
          /\ fs = run[1].before

(***************************************************************************)
(* node/crew.py: the Node crew.  agents_config is the dict that CrewBase   *)
(* loads from config/agents.yaml, here agent name -> the list under its    *)
(* "tools" key (<< >> when the key is absent or empty).  The @agent        *)
(* decorator of crewai.project memoizes a method per object: cache holds   *)
(* the methods that have returned.  log lists, in order, the executions of *)
(* _validate_agent_tools and the Agent objects constructed; last is the    *)
(* result of the last call.                                                *)
(***************************************************************************)

\* crew.py lines 17-20, toolset(): the map that get_tool_functions() returns
toolset == _ToolMap(tool_functions).items

\* a check through the tolerant lookup: unregistered is what reg[t] raises for
UnregisteredByLookup(t, reg_keys) ==
  _ToolMap__getitem__(toolset, t).kind = "raise"

\* crew.py line 77, `t not in reg_keys`
Unregistered(t, reg_keys) == t \notin reg_keys

\* lines 76-79 for one agent: the (t, suggestion) pairs that setdefault
\* collects; the suggestion is << >> for None
MissingTools(tools, reg_keys) ==
  LET bad == SelectSeq(tools, LAMBDA t : Unregistered(t, reg_keys))
  IN  [i \in 1 .. Len(bad) |->
         <<bad[i], get_close_matches(bad[i], reg_keys, CutoffNum, CutoffDen)>>]

\* lines 70-89, _validate_agent_tools(self): the missing dict and whether
\* RuntimeError is raised
_validate_agent_tools(agents_config) ==
  LET reg_keys == DictKeySet(toolset)
      all == [i \in 1 .. Len(agents_config) |->
                <<agents_config[i][1], MissingTools(agents_config[i][2], reg_keys)>>]
  IN  CHOOSE v \in {[missing |-> missing,
                      result |-> IF missing # << >> THEN Raise("RuntimeError")
                                 ELSE Return("None")] :
                       missing \in {SelectSeq(all, LAMBDA item : item[2] # << >>)}} : TRUE

\* the entries of log
Validation(v) ==
  [op |-> "_validate_agent_tools", agent |-> "None", missing |-> v.missing,
   raised |-> v.result.kind = "raise"]

Agent(name) == [op |-> "Agent", agent |-> name, missing |-> << >>, raised |-> FALSE]

\* the tools lists of the two agents in agents.yaml
ResearcherTools ==
  {<< >>,
   <<KeyNodeCodeAnalyzer, KeyDependencyAnalyzer>>,
   <<KeyNodeCodeAnalyzer, <<SP>> \o KeyTestGenerator>>,
   <<SubstAt(KeyNodeCodeAnalyzer, 5, NBSP)>>,
   <<DeleteAt(KeyTestGenerator, 13),
     <<84, 111, 116, 97, 108, 108, 121, 32, 85, 110, 107, 110, 111, 119, 110, 32, 84, 111,
       111, 108>>>>}

ReportingAnalystTools == {<< >>, <<KeyTestGenerator>>, <<KeyESMMigrationToolTrailing>>}

AgentsConfigs ==
  {<<<<"researcher", r>>, <<"reporting_analyst", a>>>> :
     r \in ResearcherTools, a \in ReportingAnalystTools}

\* the longest log from which a method is still called
MaxEvents == 3

\* Node(): the crew object with its configuration loaded
NewNode(cfg) ==
  /\ node = << >>
  /\ node' = <<[agents_config |-> cfg, cache |-> {}, log |-> << >>, last |-> << >>]>>
  /\ UNCHANGED <<registryVars, instance, run, crewVars, fs, results, built, held>>

\* lines 91-94, self.researcher(): the validation, then the Agent
researcher ==
  /\ node # << >>
  /\ Len(node[1].log) < MaxEvents
  /\ LET self == node[1]
     IN  IF "researcher" \in self.cache
         THEN node' = <<[self EXCEPT !.last = <<Return(Agent("researcher"))>>]>>
         ELSE \E v \in {_validate_agent_tools(self.agents_config)} :
                node' =
                  IF v.result.kind = "raise"
                  THEN <<[self EXCEPT !.log = Append(@, Validation(v)),
                                      !.last = <<v.result>>]>>
                  ELSE <<[self EXCEPT !.log = @ \o <<Validation(v), Agent("researcher")>>,
                                      !.cache = @ \cup {"researcher"},
                                      !.last = <<Return(Agent("researcher"))>>]>>
  /\ UNCHANGED <<registryVars, instance, run, crewVars, fs, results, built, held>>

\* lines 96-98, self.reporting_analyst(): the Agent, with no validation
reporting_analyst ==
  /\ node # << >>
  /\ Len(node[1].log) < MaxEvents
  /\ LET self == node[1]
     IN  node' =
           IF "reporting_analyst" \in self.cache
           THEN <<[self EXCEPT !.last = <<Return(Agent("reporting_analyst"))>>]>>
           ELSE <<[self EXCEPT !.log = Append(@, Agent("reporting_analyst")),
                               !.cache = @ \cup {"reporting_analyst"},
                               !.last = <<Return(Agent("reporting_analyst"))>>]>>
  /\ UNCHANGED <<registryVars, instance, run, crewVars, fs, results, built, held>>

\* the crew object is dropped
DropNode ==
  /\ node # << >>
  /\ node' = << >>
  /\ UNCHANGED <<registryVars, instance, run, crewVars, fs, results, built, held>>

(***************************************************************************)
(* node/agents.py: the Node shim.  An Agent is the list of its tools; the  *)
(* "tools" list of an agent's block in config/agents.yaml is the argument  *)
(* of the call.                                                            *)
(***************************************************************************)

\* agents.py line 26: TOOL_FUNCTIONS = get_tool_functions()
TOOL_FUNCTIONS == _ToolMap(tool_functions).items

\* lines 47-53: one method per agent key
AgentKeys ==
  {"code_analyst", "modernization_specialist", "dependency_manager", "testing_engineer",
   "security_auditor", "build_config_specialist", "performance_optimizer"}

\* the tools lists of a block of agents.yaml
BlockTools ==
  {<< >>,
   <<KeyNodeCodeAnalyzer>>,
   <<KeySecurityScanner, KeyDependencyAnalyzer>>,
   <<KeyTestGenerator \o <<SP>>>>}

\* lines 34-44, _build(self, key), for a block with the given tools list.
\* Lines 16-17 import the two optional tool modules unguarded, so the module
\* is importable only when both imports succeed.  Line 36 reads the global
\* TOOL_REGISTRY, which no statement binds (line 26 binds TOOL_FUNCTIONS):
\* the first element of the list raises NameError, and only an empty list
\* reaches the Agent(...) of lines 37-44.
_build(tools) ==
  IF ~(imports.esm /\ imports.native) THEN Raise("ImportError")
  ELSE IF tools # << >> THEN Raise("NameError")
  ELSE Return([tools |-> << >>])

\* self.<key>(): return self._build("<key>")
Build(key, tools) ==
  /\ built' = <<[key |-> key, tools |-> tools, result |-> _build(tools)]>>
  /\ UNCHANGED <<registryVars, instance, run, crewVars, fs, results, node, held>>

CrewNext ==
  \/ \E cfg \in AgentsConfigs : NewNode(cfg)
  \/ researcher
  \/ reporting_analyst
  \/ DropNode

CrewSpec == Init /\ [][CrewNext]_vars

\* the shim of agents.py, which shares no state with the crew of crew.py
AgentsNext == \E key \in AgentKeys, tools \in BlockTools : Build(key, tools)

AgentsSpec == Init /\ [][AgentsNext]_vars

\* the executions of _validate_agent_tools and the Agent constructions, as
\* positions of the log
Validations == {i \in 1 .. Len(node[1].log) : node[1].log[i].op = "_validate_agent_tools"}

Constructions == {i \in 1 .. Len(node[1].log) : node[1].log[i].op = "Agent"}

\* C21: in every execution _validate_agent_tools has completed before any
\* Agent is constructed, and it is executed at most once (exactly once as
\* soon as an Agent exists), whichever agent method is called first and
\* however often the methods are called.
C21_ValidatedOnceBeforeAnyAgent ==
  node # << >> =>
    /\ Cardinality(Validations) <= 1
    /\ \A a \in Constructions : \E v \in Validations : v < a

\* the names that some agent of the configuration lists
ConfiguredNames ==
  UNION {{node[1].agents_config[i][2][j] : j \in 1 .. Len(node[1].agents_config[i][2])} :
           i \in 1 .. Len(node[1].agents_config)}

\* C22: _validate_agent_tools raises RuntimeError exactly when some name
\* configured for some agent is not identical to a key of the registry,
\* whether or not the registry's tolerant lookup would resolve that name; the
\* raise ends researcher() before its Agent is constructed.
C22_ValidationIsExactMembership ==
  node # << >> =>
    \A i \in 1 .. Len(node[1].log) :
      LET e == node[1].log[i]
      IN  /\ e.op = "_validate_agent_tools" =>
                (e.raised <=> \E t \in ConfiguredNames : t \notin DictKeySet(tool_functions))
          /\ (e.op = "Agent" /\ e.agent = "researcher") =>
                /\ i > 1
                /\ node[1].log[i - 1].op = "_validate_agent_tools"
                /\ ~node[1].log[i - 1].raised

\* researcher() raised RuntimeError over a configuration whose every name the
\* tolerant lookup resolves, one of them through normalization only
C22_Witness ==
  /\ node # << >>
  /\ node[1].last = <<Raise("RuntimeError")>>
  /\ node[1].log # << >>
  /\ node[1].log[Len(node[1].log)].raised
  /\ \A t \in ConfiguredNames : _ToolMap__getitem__(toolset, t).kind = "return"
  /\ \E t \in ConfiguredNames : _ToolMap__getitem__(toolset, t).via = "normalized"

\* C23: Node._build of agents.py resolves every name of the agent's tools
\* list through the registry that get_tool_functions returned, and returns an
\* Agent whose tools are those registry entries in the order of the list.
C23_BuildResolvesToolsInOrder ==
  (/\ built # << >>
   /\ imports.esm /\ imports.native
   /\ \A i \in 1 .. Len(built[1].tools) :
        _ToolMap__getitem__(TOOL_FUNCTIONS, built[1].tools[i]).kind = "return") =>
    /\ built[1].result.kind = "return"
    /\ built[1].result.value.tools =
         [i \in 1 .. Len(built[1].tools) |->
            _ToolMap__getitem__(TOOL_FUNCTIONS, built[1].tools[i]).factory]

(***************************************************************************)
(* The objects that the factories make.  A tool object is known by its     *)
(* class, its name attribute and its identity (a number that no other      *)
(* object made so far has); held lists the objects of a caller with the    *)
(* key each was asked for under.                                           *)
(***************************************************************************)

\* the `name: str = "..."` of each tool class
ToolName(cls) ==
  CASE cls = "NodeCodeAnalyzer" -> KeyNodeCodeAnalyzer
    [] cls = "DependencyAnalyzer" -> KeyDependencyAnalyzer
    [] cls = "WatchdogServiceAnalyzer" -> KeyWatchdogServiceAnalyzer
    [] cls = "SecurityScanner" -> KeySecurityScanner
    [] cls = "TestGenerator" -> KeyTestGenerator
    [] cls = "NodeVersionMigrator" -> KeyNodeVersionMigrator
    [] cls \in {"ESMMigrationTool", "_ESMDummy"} -> KeyESMMigrationTool
    [] cls \in {"NativeModuleMigrator", "_NativeDummy"} -> KeyNativeModuleMigrator

\* a factory that hands out the one instance made when it was defined
CallShared(factory, made) ==
  [cls |-> factory.cls, name |-> ToolName(factory.cls), id |-> 0]

\* custom_tools.py line 46, the lambda of _ctor called: cls(), a new object
Call(factory, made) ==
  [cls |-> factory.cls, name |-> ToolName(factory.cls), id |-> made + 1]

\* the most objects a caller holds
MaxHeld == 2

\* crew.py lines 29-67, self.toolset()["<key>"](): the factory registered
\* under the key is looked up and called
ToolMethod(key) ==
  /\ Len(held) < MaxHeld
  /\ LET found == _ToolMap__getitem__(toolset, key)
     IN  /\ found.kind = "return"
         /\ held' = Append(held, [key |-> key, tool |-> Call(found.factory, Len(held))])
  /\ UNCHANGED <<registryVars, instance, run, crewVars, fs, results, node, built>>

\* the caller lets go of its tool objects
ReleaseTools ==
  /\ held # << >>
  /\ held' = << >>
  /\ UNCHANGED <<registryVars, instance, run, crewVars, fs, results, node, built>>

FactoryNext ==
  \/ \E key \in CanonicalKeys : ToolMethod(key)
  \/ ReleaseTools

FactorySpec == Init /\ [][FactoryNext]_vars

\* C24: each call of a factory of the registry makes a new tool object, and
\* the name attribute of that object is the canonical key the factory is
\* registered under, for the real tools and for the placeholders alike.
C24_FactoryMakesNewNamedInstance ==
  \A i \in 1 .. Len(held) :
    /\ held[i].key \in DictKeySet(tool_functions)
    /\ held[i].tool.cls = DictGet(tool_functions, held[i].key).cls
    /\ held[i].tool.name = held[i].key
    /\ \A j \in 1 .. Len(held) : j # i => held[j].tool.id # held[i].tool.id

\* the factory of a placeholder was called twice
C24_Witness ==
  /\ Len(held) = 2
  /\ held[1].key = held[2].key
  /\ held[1].tool.cls = "_NativeDummy"
  /\ held[2].tool.cls = "_NativeDummy"

\* C25: _normalize is injective on the keys of the registry: distinct keys
\* have distinct normalized forms, so the index has as many entries as the
\* registry, and every key is a fixed point of _normalize.
C25_NormalizeInjectiveOnKeys ==
  /\ Cardinality({_normalize(k) : k \in DictKeySet(tool_functions)})
       = Cardinality(DictKeySet(tool_functions))
  /\ Len(_normalized_index) = Len(tool_functions)
  /\ Cardinality(DictKeySet(_normalized_index)) = Cardinality(DictKeySet(tool_functions))
  /\ \A k \in DictKeySet(tool_functions) : _normalize(k) = k

\* a caller reached a key through the index of the eight normalized forms,
\* with both optional tools replaced by their placeholders
C25_Witness ==
  /\ Looked
  /\ Out.kind = "return"
  /\ Out.via = "normalized"
  /\ ~imports.esm /\ ~imports.native
  /\ DictKeySet(_normalized_index) = CanonicalKeys
  /\ {_normalize(k) : k \in CanonicalKeys} = CanonicalKeys

\* the elements of a list
Listed(s) == {s[i] : i \in 1 .. Len(s)}

\* C26: after a hybrid (or gradual) run that returns a report, every file of
\* the migration order is in exactly one of three places: migrated (its .mjs
\* path in migrated_files and its own path in wrapper_files, two lists of
\* equal length), unchanged_files, or errors; so migrated + unchanged +
\* errors of the report is the length of the migration order, which is at
\* most total_files.
C26_HybridOneOutcomePerFile ==
  (/\ run # << >>
   /\ run[1].tool = "ESMMigrationTool"
   /\ run[1].result.kind = "return"
   /\ "report" \in DOMAIN run[1].result.value
   /\ run[1].result.value.strategy \in {"hybrid", "gradual"}) =>
    LET value == run[1].result.value
        result == value.migration_result
        order == _determine_migration_order(value.analysis)
        Migrated(f) == /\ with_suffix_mjs(f) \in Listed(result.migrated_files)
                       /\ f \in Listed(result.wrapper_files)
        Unchanged(f) == f \in Listed(result.unchanged_files)
        Failed(f) == f \in Listed(result.errors)
    IN  /\ Len(result.migrated_files) = Len(result.wrapper_files)
        /\ \A i \in 1 .. Len(order) :
             LET f == order[i]
             IN  /\ Migrated(f) \/ Unchanged(f) \/ Failed(f)
                 /\ ~(Migrated(f) /\ Unchanged(f))
                 /\ ~(Migrated(f) /\ Failed(f))
                 /\ ~(Unchanged(f) /\ Failed(f))
                 /\ with_suffix_mjs(f) \in Listed(result.migrated_files) <=> Migrated(f)
        /\ value.report.migrated + value.report.unchanged + value.report.errors = Len(order)
        /\ value.report.migrated = Len(result.migrated_files)
        /\ value.report.errors = Len(result.errors)
        /\ Len(order) <= value.report.total_files

\* a hybrid run over two files: the .mjs file of the first could not be
\* written, the second was migrated
C26_Witness ==
  /\ run # << >>
  /\ run[1].tool = "ESMMigrationTool"
  /\ run[1].result.kind = "return"
  /\ "report" \in DOMAIN run[1].result.value
  /\ run[1].result.value.strategy = "hybrid"
  /\ run[1].result.value.migration_result.errors = <<"app/a.js">>
  /\ run[1].result.value.migration_result.migrated_files = <<"app/b.mjs">>
  /\ run[1].result.value.migration_result.wrapper_files = <<"app/b.js">>
  /\ run[1].result.value.report.total_files = 2

====
